---- MODULE Spec2Model ----
(***************************************************************************)
(* Model of the preprocessing engine of Complete-ML-Pipeline:              *)
(*   src/src/preprocessors/base_preprocessor.py                            *)
(*   src/src/preprocessors/text_preprocessor.py                            *)
(*   src/src/preprocessors/numeric_preprocessor.py                         *)
(*   src/src/preprocessors/categorical_preprocessor.py                     *)
(*   src/src/preprocessors/preprocessor_factory.py                         *)
(*                                                                         *)
(* A table (pandas DataFrame) is a record                                  *)
(*   [columns |-> sequence of column names, data |-> [name -> column]]     *)
(* and a column is a sequence of cells, one per row.                       *)
(* Numeric cells are exact fractions <<n, d>> with d > 0 in lowest terms;  *)
(* <<0, 0>> is NaN.  Categorical cells are strings, None is the missing    *)
(* cell.  Text cells are records [str, s]: s is the sequence of the        *)
(* characters and str tells whether the cell is a Python str.              *)
(*                                                                         *)
(* The model follows pandas < 3 and scikit-learn < 1.4, the versions the   *)
(* code is written for (OneHotEncoder(sparse=False), Series.fillna with    *)
(* inplace=True acting on the frame).                                      *)
(***************************************************************************)
EXTENDS Integers, Sequences, FiniteSets, TLC

(***************************************************************************)
(* Bounds of the model.                                                    *)
(***************************************************************************)
\* the number of distinct numeric values, and of distinct categories, that
\* the cells of the caller's tables are drawn from
MaxValue == 2

(***************************************************************************)
(* Exact arithmetic on float cells.                                        *)
(***************************************************************************)
NaN == <<0, 0>>

IsNaN(x) == x[2] = 0

Abs(n) == IF n < 0 THEN -n ELSE n

RECURSIVE GCD(_, _)
GCD(a, b) == IF b = 0 THEN a ELSE GCD(b, a % b)

\* the fraction n/d in lowest terms with a positive denominator
Frac(n, d) ==
    IF d = 0 THEN NaN
    ELSE LET g == GCD(Abs(n), Abs(d))
             s == IF d < 0 THEN -1 ELSE 1
         IN  <<(s * n) \div g, (s * d) \div g>>

Num(n) == <<n, 1>>

FAdd(x, y) == IF IsNaN(x) \/ IsNaN(y) THEN NaN
              ELSE Frac(x[1] * y[2] + y[1] * x[2], x[2] * y[2])

FSub(x, y) == IF IsNaN(x) \/ IsNaN(y) THEN NaN
              ELSE Frac(x[1] * y[2] - y[1] * x[2], x[2] * y[2])

FMul(x, y) == IF IsNaN(x) \/ IsNaN(y) THEN NaN
              ELSE Frac(x[1] * y[1], x[2] * y[2])

\* x / k for an integer k > 0
FDivInt(x, k) == IF IsNaN(x) THEN NaN ELSE Frac(x[1], x[2] * k)

\* x < y on non-NaN fractions
FLess(x, y) == x[1] * y[2] < y[1] * x[2]

(***************************************************************************)
(* Helpers on sequences.                                                   *)
(***************************************************************************)
Range(s) == {s[i] : i \in 1..Len(s)}

Contains(s, e) == \E i \in 1..Len(s) : s[i] = e

\* index of the first occurrence of e in s, 0 when absent
IndexOf(s, e) ==
    IF Contains(s, e) THEN CHOOSE i \in 1..Len(s) : s[i] = e /\ \A j \in 1..(i - 1) : s[j] # e
    ELSE 0

\* s[:1]: the first element of s as a sequence, <<>> for an empty s
First(s) == IF s = <<>> THEN <<>> ELSE <<s[1]>>

RECURSIVE Concat(_)
Concat(ss) == IF ss = <<>> THEN <<>> ELSE Head(ss) \o Concat(Tail(ss))

\* number of cells of col equal to v
Count(col, v) == Cardinality({i \in 1..Len(col) : col[i] = v})

\* the elements of the finite set S in ascending order of Less
SortSet(S, Less(_, _)) ==
    [i \in 1..Cardinality(S) |->
        CHOOSE x \in S : Cardinality({y \in S : Less(y, x)}) = i - 1]

(***************************************************************************)
(* pandas Series statistics on a float column (NaN skipped).               *)
(***************************************************************************)
DropNaN(col) == SelectSeq(col, LAMBDA x : ~IsNaN(x))

RECURSIVE FSum(_)
FSum(col) == IF col = <<>> THEN Num(0) ELSE FAdd(Head(col), FSum(Tail(col)))

\* Series.mean(): NaN for a column without values
SeriesMean(col) ==
    LET v == DropNaN(col)
    IN  IF v = <<>> THEN NaN ELSE FDivInt(FSum(v), Len(v))

\* the q-th quartile (q in 0..4) of the values, linear interpolation (numpy)
Quartile(col, q) ==
    LET v == SortSeq(DropNaN(col), FLess)
        n == Len(v)
        lo == (q * (n - 1)) \div 4
        r == (q * (n - 1)) % 4
    IN  IF n = 0 THEN NaN
        ELSE IF r = 0 THEN v[lo + 1]
        ELSE FAdd(v[lo + 1], FDivInt(FMul(Num(r), FSub(v[lo + 2], v[lo + 1])), 4))

\* Series.median(): NaN for a column without values
SeriesMedian(col) == Quartile(col, 2)

\* Series.mode(): the most frequent values in ascending order (NaN dropped)
NumericMode(col) ==
    LET v == DropNaN(col)
        best == {x \in Range(v) : \A y \in Range(v) : Count(v, y) <= Count(v, x)}
    IN  SortSet(best, FLess)


(***************************************************************************)
(* Categorical cells.  Python compares str values lexicographically:       *)
(* "2020" < "A" < "B" < "C" < "D" < "MISSING".                             *)
(***************************************************************************)
None == "<NA>"

MISSING == "MISSING"

Categories == <<"A", "B", "C", "D">>

CategoryOrder == <<"2020">> \o Categories \o <<MISSING>>

StrLess(x, y) == IndexOf(CategoryOrder, x) < IndexOf(CategoryOrder, y)

DropNone(col) == SelectSeq(col, LAMBDA x : x # None)

\* Series.mode() of an object column: most frequent values, sorted
CategoryMode(col) ==
    LET v == DropNone(col)
        best == {x \in Range(v) : \A y \in Range(v) : Count(v, y) <= Count(v, x)}
    IN  SortSet(best, StrLess)

(***************************************************************************)
(* The configuration file (config.yaml) as loaded by load_config.          *)
(***************************************************************************)
Col(n, t) == [name |-> n, type |-> t]

Age == Col("age", "numeric")

City == Col("city", "categorical")

Note == Col("note", "text")

Ts == Col("ts", "datetime")

NumericDefault == [handle_missing |-> "mean", scaling |-> "standard"]

CategoricalDefault == [handle_missing |-> "mode", encoding |-> "label"]

TextDefault ==
    [lowercase |-> TRUE, remove_punctuation |-> TRUE,
     remove_stopwords |-> TRUE, stemming |-> TRUE]

TextPlain ==
    [lowercase |-> FALSE, remove_punctuation |-> FALSE,
     remove_stopwords |-> FALSE, stemming |-> FALSE]

\* preprocessing.numeric: every missing-value method and every scaler, and
\* an unknown value of each option
NumericConfigs ==
    {NumericDefault,
     [handle_missing |-> "median", scaling |-> "minmax"],
     [handle_missing |-> "mode", scaling |-> "robust"],
     [handle_missing |-> "bogus", scaling |-> "standard"],
     [handle_missing |-> "mean", scaling |-> "bogus"]}

\* preprocessing.categorical: both missing-value methods with both
\* encodings, and an unknown value of each option
CategoricalConfigs ==
    [handle_missing : {"mode", "sentinel"}, encoding : {"label", "onehot"}]
    \cup {[handle_missing |-> "bogus", encoding |-> "label"],
          [handle_missing |-> "mode", encoding |-> "bogus"]}

\* preprocessing.text: every step on, every step off, each step alone
TextConfigs ==
    {TextDefault, TextPlain,
     [TextPlain EXCEPT !.lowercase = TRUE],
     [TextPlain EXCEPT !.remove_punctuation = TRUE],
     [TextPlain EXCEPT !.remove_stopwords = TRUE],
     [TextPlain EXCEPT !.stemming = TRUE]}

MkConfig(cols, n, c, t) ==
    [dataset |-> [input_columns |-> cols],
     preprocessing |-> [numeric |-> n, categorical |-> c, text |-> t]]

\* the configurations explored: the options of a block with a dataset of
\* that block's type, and datasets of several types with the usual options
Configs ==
    {MkConfig(<<Age>>, n, CategoricalDefault, TextDefault) : n \in NumericConfigs}
    \cup
    {MkConfig(<<City>>, NumericDefault, c, TextDefault) : c \in CategoricalConfigs}
    \cup
    {MkConfig(<<Note>>, NumericDefault, CategoricalDefault, t) : t \in TextConfigs}
    \cup
    {MkConfig(d, NumericDefault, CategoricalDefault, TextDefault) :
        d \in {<<Age, City>>, <<Ts>>, <<Age, Ts>>}}

(***************************************************************************)
(* Tables.                                                                 *)
(***************************************************************************)
TextCell(b, chars) == [str |-> b, s |-> chars]

TheCats == <<"T", "h", "e", " ", "c", "a", "t", "s", "!">>

\* the cells a caller may put in a column of the given declared type
CellsOf(type) ==
    CASE type = "numeric" -> {Num(10 * k) : k \in 1..MaxValue} \cup {NaN}
      [] type = "categorical" -> {Categories[k] : k \in 1..MaxValue} \cup {None}
      [] type = "text" -> {TextCell(TRUE, TheCats), TextCell(FALSE, <<"7">>)}
      [] OTHER -> {"2020", None}

ColumnNames(cols) == [i \in 1..Len(cols) |-> cols[i].name]

TypeOf(cols, name) == cols[CHOOSE i \in 1..Len(cols) : cols[i].name = name].type

Reverse(s) == [i \in 1..Len(s) |-> s[Len(s) + 1 - i]]

\* s without its i-th element
Remove(s, i) == [j \in 1..(Len(s) - 1) |-> IF j < i THEN s[j] ELSE s[j + 1]]

NRows(table) == IF table.columns = <<>> THEN 0 ELSE Len(table.data[table.columns[1]])

\* the assignments of an n-row column to every name of names
RECURSIVE DataOver(_, _, _)
DataOver(cols, names, n) ==
    IF names = <<>> THEN {<<>>}
    ELSE {(Head(names) :> col) @@ d :
            col \in [1..n -> CellsOf(TypeOf(cols, Head(names)))],
            d \in DataOver(cols, Tail(names), n)}

\* the tables with exactly the columns names (in that order) and n rows
TablesWith(cols, names, n) ==
    {[columns |-> names, data |-> d] : d \in DataOver(cols, names, n)}

\* the column orders of the caller's tables: the declared columns in the
\* reverse of the declared order, or with one of them left out
ColumnOrders(cols) ==
    {Reverse(ColumnNames(cols))}
    \cup {Remove(ColumnNames(cols), i) : i \in 1..Len(cols)}

\* the row counts of the caller's tables: one or two rows for a dataset of
\* one column, one row for a wider one
RowCounts(cols) == IF Len(cols) = 1 THEN {1, 2} ELSE {1}

\* the caller's tables for a configuration
Tables(cfg) ==
    UNION {IF names = <<>> THEN {[columns |-> <<>>, data |-> <<>>]}
           ELSE UNION {TablesWith(cfg.dataset.input_columns, names, n) :
                          n \in RowCounts(cfg.dataset.input_columns)} :
           names \in ColumnOrders(cfg.dataset.input_columns)}

(***************************************************************************)
(* BasePreprocessor.                                                       *)
(***************************************************************************)
\* a validate_input that asks for one of the columns of
\* dataset.input_columns only
validate_input_Any(cfg, data) ==
    \E c \in Range(ColumnNames(cfg.dataset.input_columns)) : Contains(data.columns, c)

\* validate_input: every column of dataset.input_columns is in the table
validate_input(cfg, data) ==
    LET expected_columns == ColumnNames(cfg.dataset.input_columns)
        missing_columns == SelectSeq(expected_columns, LAMBDA c : ~Contains(data.columns, c))
    IN  missing_columns = <<>>

\* [col['name'] for col in input_columns if col['type'] == data_type]
ColumnsOfType(cfg, data_type) ==
    ColumnNames(SelectSeq(cfg.dataset.input_columns, LAMBDA c : c.type = data_type))

\* the table of a call that returns none
NoTable == [columns |-> <<>>, data |-> <<>>]

(***************************************************************************)
(* Frames.  A call works on a binding [arg, df, own]: arg is the caller's  *)
(* table, df the frame the local name refers to, and own tells whether df  *)
(* is a frame of its own (a copy) or the caller's frame itself, in which   *)
(* case a write to df is a write to the caller's table.                    *)
(***************************************************************************)
\* the outcome of a call: its status ("ok" or the exception raised) and the
\* binding of the frame it works on.  The exceptions: InvalidInput is the
\* ValueError of a failed validate_input, UnknownMethod the ValueError of an
\* unknown option, UnseenLabels the ValueError of LabelEncoder.transform,
\* EmptyMode the error of mode()[0] on a column without values, KeyError the
\* error of df[col] for a column that df lacks
Outcome(status, fs) == [status |-> status, fs |-> fs]

\* the parameter `data` of a call: the caller's frame itself
Bind(data) == [arg |-> data, df |-> data, own |-> FALSE]

\* data.copy()
DataFrameCopy(fs) == [fs EXCEPT !.own = TRUE]

\* a write of the frame fs.df, which becomes newdf
Write(fs, newdf) ==
    [arg |-> IF fs.own THEN fs.arg ELSE newdf, df |-> newdf, own |-> fs.own]

\* df[col] = values, and df[col].fillna(value, inplace=True)
SetColumn(fs, col, values) ==
    Write(fs, [fs.df EXCEPT !.data = [@ EXCEPT ![col] = values]])

\* an expression that builds a new frame (data[columns], df.drop, pd.concat)
NewFrame(fs, newdf) == [arg |-> fs.arg, df |-> newdf, own |-> TRUE]

(***************************************************************************)
(* TextPreprocessor.  nltk is modelled on the characters of the cells:     *)
(* word_tokenize splits at blanks and makes a token of a punctuation       *)
(* mark, the stop words are {"the"}, and PorterStemmer.stem lowercases     *)
(* the token and removes a plural s (step 1a).                             *)
(***************************************************************************)
Lower(c) == CASE c = "T" -> "t" [] OTHER -> c

Punctuation == {"!"}

StopWords == {<<"t", "h", "e">>}

\* str.lower()
LowerStr(text) == [i \in 1..Len(text) |-> Lower(text[i])]

\* text.translate(str.maketrans("", "", string.punctuation))
StripPunctuation(text) == SelectSeq(text, LAMBDA c : c \notin Punctuation)

\* nltk.word_tokenize: the sequence of tokens of text
RECURSIVE Tokenize(_, _)
Tokenize(text, cur) ==
    LET flush == IF cur = <<>> THEN <<>> ELSE <<cur>>
    IN  IF text = <<>> THEN flush
        ELSE IF Head(text) = " " THEN flush \o Tokenize(Tail(text), <<>>)
        ELSE IF Head(text) \in Punctuation
             THEN flush \o <<<<Head(text)>>>> \o Tokenize(Tail(text), <<>>)
        ELSE Tokenize(Tail(text), Append(cur, Head(text)))

\* PorterStemmer.stem(token)
Stem(token) ==
    LET w == LowerStr(token)
        n == Len(w)
    IN  IF n > 2 /\ w[n] = "s" /\ w[n - 1] # "s" THEN SubSeq(w, 1, n - 1) ELSE w

\* " ".join(tokens)
RECURSIVE Join(_)
Join(tokens) ==
    IF tokens = <<>> THEN <<>>
    ELSE IF Len(tokens) = 1 THEN tokens[1]
    ELSE tokens[1] \o <<" ">> \o Join(Tail(tokens))

\* the steps of _preprocess_text, each on the outcome of the one before
ToLower(text_config, text) == IF text_config.lowercase THEN LowerStr(text) ELSE text

RemovePunctuation(text_config, text) ==
    IF text_config.remove_punctuation THEN StripPunctuation(text) ELSE text

RemoveStopwords(text_config, tokens) ==
    IF text_config.remove_stopwords
    THEN SelectSeq(tokens, LAMBDA t : t \notin StopWords) ELSE tokens

StemTokens(text_config, tokens) ==
    IF text_config.stemming THEN [i \in 1..Len(tokens) |-> Stem(tokens[i])] ELSE tokens

\* _preprocess_text: a cell that is not a str gives ""
preprocess_text(text_config, cell) ==
    IF ~cell.str THEN TextCell(TRUE, <<>>)
    ELSE TextCell(TRUE,
             Join(StemTokens(text_config,
                  RemoveStopwords(text_config,
                      Tokenize(RemovePunctuation(text_config,
                                   ToLower(text_config, cell.s)), <<>>)))))

\* an apply on df[col].dropna(): the cells that are not a str are left out
TextApply_DropNonStr(text_config, column) ==
    [i \in 1..Len(SelectSeq(column, LAMBDA cell : cell.str)) |->
        preprocess_text(text_config, SelectSeq(column, LAMBDA cell : cell.str)[i])]

\* df[col].apply(self._preprocess_text)
TextApply(text_config, column) ==
    [i \in 1..Len(column) |-> preprocess_text(text_config, column[i])]

\* the loop of TextPreprocessor.transform over the text columns
RECURSIVE TextColumns(_, _, _)
TextColumns(text_config, r, text_columns) ==
    IF text_columns = <<>> \/ r.status # "ok" THEN r
    ELSE IF ~Contains(r.fs.df.columns, Head(text_columns)) THEN Outcome("KeyError", r.fs)
    ELSE TextColumns(text_config,
                     Outcome("ok", SetColumn(r.fs, Head(text_columns),
                                 TextApply(text_config, r.fs.df.data[Head(text_columns)]))),
                     Tail(text_columns))

\* TextPreprocessor.fit: validation only
TextFit(cfg, fs) ==
    IF ~validate_input(cfg, fs.df) THEN Outcome("InvalidInput", fs) ELSE Outcome("ok", fs)

\* TextPreprocessor.transform
TextTransform(cfg, fs) ==
    IF ~validate_input(cfg, fs.df) THEN Outcome("InvalidInput", fs)
    ELSE TextColumns(cfg.preprocessing.text, Outcome("ok", DataFrameCopy(fs)),
                     ColumnsOfType(cfg, "text"))

(***************************************************************************)
(* NumericPreprocessor.  A fitted scaler is [center, scale2]: transform    *)
(* maps x to (x - center) / scale_ with scale_ * scale_ = scale2, and a    *)
(* scaled cell is kept exactly as [num |-> x - center, scale2 |-> scale2]. *)
(* sklearn replaces a scale_ of 0 by 1.                                    *)
(***************************************************************************)
\* __init__ with _setup_scalers: "ok", or the error raised
NumericInit(numeric_config) ==
    IF numeric_config.scaling \in {"standard", "minmax", "robust"} THEN "ok"
    ELSE "UnknownMethod"

\* Series.fillna(value): NaN cells become value
FillNaN(column, value) ==
    [i \in 1..Len(column) |-> IF IsNaN(column[i]) THEN value ELSE column[i]]

\* the value a column is filled with by _handle_missing_values: <<v>>, or
\* <<>> when mode() is empty and mode()[0] raises
NumericFillValue(method, column) ==
    CASE method = "mean" -> <<SeriesMean(column)>>
      [] method = "median" -> <<SeriesMedian(column)>>
      [] method = "mode" -> First(NumericMode(column))

\* df[col].fillna(v[0], inplace=True)
NumericFillColumn(fs, col, v) ==
    IF v = <<>> THEN Outcome("EmptyMode", fs)
    ELSE Outcome("ok", SetColumn(fs, col, FillNaN(fs.df.data[col], v[1])))

\* the loop of NumericPreprocessor._handle_missing_values; r is the outcome
\* of the columns before
RECURSIVE NumericFillLoop(_, _, _)
NumericFillLoop(method, r, columns) ==
    IF columns = <<>> \/ r.status # "ok" THEN r
    ELSE IF ~Contains(r.fs.df.columns, Head(columns)) THEN Outcome("KeyError", r.fs)
    ELSE IF method \notin {"mean", "median", "mode"} THEN Outcome("UnknownMethod", r.fs)
    ELSE NumericFillLoop(method,
             NumericFillColumn(r.fs, Head(columns),
                               NumericFillValue(method, r.fs.df.data[Head(columns)])),
             Tail(columns))

\* a _handle_missing_values without df = data.copy(): fillna works on the
\* frame it is passed
NumericHandleMissing_InPlace(numeric_config, fs, columns) ==
    NumericFillLoop(numeric_config.handle_missing, Outcome("ok", fs), columns)

\* NumericPreprocessor._handle_missing_values
NumericHandleMissing(numeric_config, fs, columns) ==
    NumericFillLoop(numeric_config.handle_missing, Outcome("ok", DataFrameCopy(fs)), columns)

FSquare(x) == FMul(x, x)

HandleZeros(scale2) == IF scale2 = Num(0) THEN Num(1) ELSE scale2

\* the mean of the squares of the distances of the values v to m
Variance(v, m) ==
    IF v = <<>> THEN NaN
    ELSE FDivInt(FSum([i \in 1..Len(v) |-> FSquare(FSub(v[i], m))]), Len(v))

\* StandardScaler().fit: mean_ and var_ of the values
StandardFit(column) ==
    [center |-> SeriesMean(column),
     scale2 |-> HandleZeros(Variance(DropNaN(column), SeriesMean(column)))]

\* MinMaxScaler().fit: data_min_ and data_range_
MinMaxFit(column) ==
    [center |-> Quartile(column, 0),
     scale2 |-> HandleZeros(FSquare(FSub(Quartile(column, 4), Quartile(column, 0))))]

\* RobustScaler().fit: center_ (median) and scale_ (interquartile range)
RobustFit(column) ==
    [center |-> SeriesMedian(column),
     scale2 |-> HandleZeros(FSquare(FSub(Quartile(column, 3), Quartile(column, 1))))]

\* self.scaler_class().fit(values)
ScalerFit(scaling, column) ==
    CASE scaling = "standard" -> StandardFit(column)
      [] scaling = "minmax" -> MinMaxFit(column)
      [] scaling = "robust" -> RobustFit(column)

\* scaler.transform(values)
ScalerTransform(scaler, column) ==
    [i \in 1..Len(column) |->
        [num |-> FSub(column[i], scaler.center), scale2 |-> scaler.scale2]]

\* a loop of fit that fits a scaler only for a column that has none
\* (self.scalers.setdefault)
RECURSIVE NumericFitLoop_KeepFitted(_, _, _, _)
NumericFitLoop_KeepFitted(scaling, scalers, df, columns) ==
    IF columns = <<>> THEN scalers
    ELSE NumericFitLoop_KeepFitted(scaling,
             scalers @@ (Head(columns) :> ScalerFit(scaling, df.data[Head(columns)])),
             df, Tail(columns))

\* the loop of fit over the numeric columns: self.scalers after it
RECURSIVE NumericFitLoop(_, _, _, _)
NumericFitLoop(scaling, scalers, df, columns) ==
    IF columns = <<>> THEN scalers
    ELSE NumericFitLoop(scaling,
             (Head(columns) :> ScalerFit(scaling, df.data[Head(columns)])) @@ scalers,
             df, Tail(columns))

\* fit after the missing values are handled, with outcome filled
NumericFitFilled(cfg, scalers, filled) ==
    [status |-> filled.status,
     scalers |-> IF filled.status # "ok" THEN scalers
                 ELSE NumericFitLoop(cfg.preprocessing.numeric.scaling, scalers,
                                     filled.fs.df, ColumnsOfType(cfg, "numeric")),
     fs |-> filled.fs]

\* NumericPreprocessor.fit: the status, self.scalers and the binding of the
\* argument at the end of the call
NumericFit(cfg, scalers, fs) ==
    IF ~validate_input(cfg, fs.df)
    THEN [status |-> "InvalidInput", scalers |-> scalers, fs |-> fs]
    ELSE NumericFitFilled(cfg, scalers,
             NumericHandleMissing(cfg.preprocessing.numeric, fs,
                                  ColumnsOfType(cfg, "numeric")))

\* the loop of transform over the numeric columns
RECURSIVE NumericTransformLoop(_, _, _)
NumericTransformLoop(scalers, fs, columns) ==
    IF columns = <<>> THEN fs
    ELSE IF Head(columns) \in DOMAIN scalers
    THEN NumericTransformLoop(scalers,
             SetColumn(fs, Head(columns),
                       ScalerTransform(scalers[Head(columns)], fs.df.data[Head(columns)])),
             Tail(columns))
    ELSE NumericTransformLoop(scalers, fs, Tail(columns))

\* a transform that raises (NotFittedError) when a numeric column has no
\* scaler
NumericTransformFilled_Strict(cfg, scalers, filled) ==
    IF filled.status # "ok" THEN filled
    ELSE IF \E col \in Range(ColumnsOfType(cfg, "numeric")) : col \notin DOMAIN scalers
    THEN Outcome("NotFitted", filled.fs)
    ELSE Outcome("ok", NumericTransformLoop(scalers, filled.fs, ColumnsOfType(cfg, "numeric")))

\* transform after the missing values are handled, with outcome filled
NumericTransformFilled(cfg, scalers, filled) ==
    IF filled.status # "ok" THEN filled
    ELSE Outcome("ok", NumericTransformLoop(scalers, filled.fs, ColumnsOfType(cfg, "numeric")))

\* NumericPreprocessor.transform
NumericTransform(cfg, scalers, fs) ==
    IF ~validate_input(cfg, fs.df) THEN Outcome("InvalidInput", fs)
    ELSE NumericTransformFilled(cfg, scalers,
             NumericHandleMissing(cfg.preprocessing.numeric, DataFrameCopy(fs),
                                  ColumnsOfType(cfg, "numeric")))

(***************************************************************************)
(* CategoricalPreprocessor.  A fitted encoder is [kind, classes_]:         *)
(* classes_ (categories_ of a OneHotEncoder) are the values seen by fit    *)
(* in ascending order.                                                     *)
(***************************************************************************)
\* Series.fillna(value) of an object column
FillNone(column, value) ==
    [i \in 1..Len(column) |-> IF column[i] = None THEN value ELSE column[i]]

\* the value a column is filled with: <<v>>, or <<>> when mode()[0] raises
CategoricalFillValue(method, column) ==
    IF method = "mode" THEN First(CategoryMode(column)) ELSE <<MISSING>>

\* df[col].fillna(v[0], inplace=True)
CategoricalFillColumn(fs, col, v) ==
    IF v = <<>> THEN Outcome("EmptyMode", fs)
    ELSE Outcome("ok", SetColumn(fs, col, FillNone(fs.df.data[col], v[1])))

\* the loop of CategoricalPreprocessor._handle_missing_values
RECURSIVE CategoricalFillLoop(_, _, _)
CategoricalFillLoop(method, r, columns) ==
    IF columns = <<>> \/ r.status # "ok" THEN r
    ELSE IF ~Contains(r.fs.df.columns, Head(columns)) THEN Outcome("KeyError", r.fs)
    ELSE CategoricalFillLoop(method,
             CategoricalFillColumn(r.fs, Head(columns),
                                   CategoricalFillValue(method, r.fs.df.data[Head(columns)])),
             Tail(columns))

\* CategoricalPreprocessor._handle_missing_values
CategoricalHandleMissing(categorical_config, fs, columns) ==
    CategoricalFillLoop(categorical_config.handle_missing,
                        Outcome("ok", DataFrameCopy(fs)), columns)

\* _setup_encoder: the kind of the new encoder, "" when it raises
setup_encoder(categorical_config) ==
    CASE categorical_config.encoding = "label" -> "label"
      [] categorical_config.encoding = "onehot" -> "onehot"
      [] OTHER -> ""

\* LabelEncoder().fit / OneHotEncoder().fit: the sorted distinct values
EncoderFit(kind, column) == [kind |-> kind, classes_ |-> SortSet(Range(column), StrLess)]

\* a LabelEncoder.transform that gives a value not in classes_ the code -1
LabelTransform_Lenient(encoder, values) ==
    [seen |-> TRUE,
     codes |-> [i \in 1..Len(values) |-> IndexOf(encoder.classes_, values[i]) - 1]]

\* LabelEncoder.transform: the codes of the values; seen = FALSE when a
\* value is not in classes_ (ValueError, previously unseen labels)
LabelTransform(encoder, values) ==
    IF \E i \in 1..Len(values) : ~Contains(encoder.classes_, values[i])
    THEN [seen |-> FALSE, codes |-> <<>>]
    ELSE [seen |-> TRUE,
          codes |-> [i \in 1..Len(values) |-> IndexOf(encoder.classes_, values[i]) - 1]]

\* dict(zip(keys, values))
DictZip(keys, values) == [k \in Range(keys) |-> values[IndexOf(keys, k)]]

\* OneHotEncoder.get_feature_names_out([col])
FeatureNames(encoder, col) ==
    [i \in 1..Len(encoder.classes_) |-> col \o "_" \o encoder.classes_[i]]

\* OneHotEncoder(handle_unknown='ignore').transform: one indicator column
\* per category, named by feature_names
OneHotTransform(encoder, feature_names, values) ==
    [n \in Range(feature_names) |->
        [i \in 1..Len(values) |->
            IF values[i] = encoder.classes_[IndexOf(feature_names, n)] THEN 1 ELSE 0]]

\* self.encoding_maps[col] of the fitted encoder enc
EncodingMap(enc, col) ==
    IF enc.kind = "label"
    THEN DictZip(enc.classes_, LabelTransform(enc, enc.classes_).codes)
    ELSE [feature_names |-> FeatureNames(enc, col)]

\* the fitted state of a CategoricalPreprocessor with a status
CatState(status, encoders, encoding_maps) ==
    [status |-> status, encoders |-> encoders, encoding_maps |-> encoding_maps]

\* a round of the loop of fit that keeps the encoding map col already has
\* (self.encoding_maps.setdefault)
CategoricalFitColumn_KeepMap(r, col, enc) ==
    CatState("ok", (col :> enc) @@ r.encoders, r.encoding_maps @@ (col :> EncodingMap(enc, col)))

\* one round of the loop of fit: the encoder enc fitted on column col
CategoricalFitColumn(r, col, enc) ==
    CatState("ok", (col :> enc) @@ r.encoders, (col :> EncodingMap(enc, col)) @@ r.encoding_maps)

\* the loop of fit over the categorical columns: the status, self.encoders
\* and self.encoding_maps after it
RECURSIVE CategoricalFitLoop(_, _, _, _)
CategoricalFitLoop(categorical_config, r, df, columns) ==
    IF columns = <<>> \/ r.status # "ok" THEN r
    ELSE IF setup_encoder(categorical_config) = ""
    THEN CatState("UnknownMethod", r.encoders, r.encoding_maps)
    ELSE CategoricalFitLoop(categorical_config,
             CategoricalFitColumn(r, Head(columns),
                 EncoderFit(setup_encoder(categorical_config), df.data[Head(columns)])),
             df, Tail(columns))

\* the outcome of fit from the outcome of the loop
CategoricalFitResult(fit, fs) ==
    [status |-> fit.status, encoders |-> fit.encoders,
     encoding_maps |-> fit.encoding_maps, fs |-> fs]

\* fit after the missing values are handled, with outcome filled
CategoricalFitFilled(cfg, encoders, encoding_maps, filled) ==
    IF filled.status # "ok"
    THEN CategoricalFitResult(CatState(filled.status, encoders, encoding_maps), filled.fs)
    ELSE CategoricalFitResult(
             CategoricalFitLoop(cfg.preprocessing.categorical,
                                CatState("ok", encoders, encoding_maps),
                                filled.fs.df, ColumnsOfType(cfg, "categorical")),
             filled.fs)

\* CategoricalPreprocessor.fit
CategoricalFit(cfg, encoders, encoding_maps, fs) ==
    IF ~validate_input(cfg, fs.df)
    THEN CategoricalFitResult(CatState("InvalidInput", encoders, encoding_maps), fs)
    ELSE CategoricalFitFilled(cfg, encoders, encoding_maps,
             CategoricalHandleMissing(cfg.preprocessing.categorical, fs,
                                      ColumnsOfType(cfg, "categorical")))

\* the columns of df without col
DropColumn(df, col) == SelectSeq(df.columns, LAMBDA c : c # col)

\* pd.concat([df.drop(columns=[col]), encoded_df], axis=1), kept being the
\* columns of df.drop(columns=[col])
ConcatEncoded(df, kept, feature_names, encoded) ==
    [columns |-> kept \o feature_names,
     data |-> [c \in Range(kept) \cup Range(feature_names) |->
                  IF c \in Range(kept) THEN df.data[c] ELSE encoded[c]]]

\* the OneHotEncoder branch of the loop of transform
OneHotColumn(encoder, names, fs, col) ==
    NewFrame(fs, ConcatEncoded(fs.df, DropColumn(fs.df, col), names,
                               OneHotTransform(encoder, names, fs.df.data[col])))

\* the LabelEncoder branch of the loop of transform, t being the outcome of
\* encoder.transform(df[col])
LabelColumn(t, fs, col) ==
    IF ~t.seen THEN Outcome("UnseenLabels", fs)
    ELSE Outcome("ok", SetColumn(fs, col, t.codes))

\* one round of the loop of transform
CategoricalTransformColumn(encoders, encoding_maps, fs, col) ==
    IF col \notin DOMAIN encoders THEN Outcome("ok", fs)
    ELSE IF encoders[col].kind = "label"
    THEN LabelColumn(LabelTransform(encoders[col], fs.df.data[col]), fs, col)
    ELSE Outcome("ok", OneHotColumn(encoders[col], encoding_maps[col].feature_names, fs, col))

\* the loop of transform over the categorical columns
RECURSIVE CategoricalTransformLoop(_, _, _, _)
CategoricalTransformLoop(encoders, encoding_maps, r, columns) ==
    IF columns = <<>> \/ r.status # "ok" THEN r
    ELSE CategoricalTransformLoop(encoders, encoding_maps,
             CategoricalTransformColumn(encoders, encoding_maps, r.fs, Head(columns)),
             Tail(columns))

\* CategoricalPreprocessor.transform
CategoricalTransform(cfg, encoders, encoding_maps, fs) ==
    IF ~validate_input(cfg, fs.df) THEN Outcome("InvalidInput", fs)
    ELSE CategoricalTransformLoop(encoders, encoding_maps,
             CategoricalHandleMissing(cfg.preprocessing.categorical, DataFrameCopy(fs),
                                      ColumnsOfType(cfg, "categorical")),
             ColumnsOfType(cfg, "categorical"))

(***************************************************************************)
(* PreprocessorFactory.                                                    *)
(***************************************************************************)
\* the order in which _initialize_preprocessors fills self.preprocessors
InstantiationOrder == <<"text", "numeric", "categorical">>

\* the constructor of the preprocessor of a type: "ok" or the error raised
PreprocessorInit(cfg, type) ==
    IF type = "numeric" THEN NumericInit(cfg.preprocessing.numeric) ELSE "ok"

\* set(col['type'] for col in input_columns)
ColumnTypes(cfg) ==
    {cfg.dataset.input_columns[i].type : i \in 1..Len(cfg.dataset.input_columns)}

\* the preprocessors of the types present, constructed in order: the keys of
\* self.preprocessors, or the error of the first constructor that raises
InitializeAll(cfg, present) ==
    IF \E i \in 1..Len(present) : PreprocessorInit(cfg, present[i]) # "ok"
    THEN [status |-> "UnknownMethod", preprocessors |-> <<>>]
    ELSE [status |-> "ok", preprocessors |-> present]

\* _initialize_preprocessors
initialize_preprocessors(cfg) ==
    InitializeAll(cfg, SelectSeq(InstantiationOrder, LAMBDA t : t \in ColumnTypes(cfg)))

\* data[columns]: a new frame with the columns in the order of the list
Slice(df, columns) ==
    [columns |-> columns, data |-> [c \in Range(columns) |-> df.data[c]]]

\* the fitted state of the preprocessors: self.scalers of the numeric one,
\* self.encoders and self.encoding_maps of the categorical one; fit_table
\* records the table each was last fitted on
Unfitted ==
    [scalers |-> <<>>, encoders |-> <<>>, encoding_maps |-> <<>>,
     fit_table |-> [numeric |-> NoTable, categorical |-> NoTable]]

\* the outcome of a fit: its status, the fitted state and the binding
FitOutcome(status, st, fs) == [status |-> status, st |-> st, fs |-> fs]

\* the fitted state after NumericPreprocessor.fit(data) with outcome r
AfterNumericFit(st, data, r) ==
    FitOutcome(r.status,
               [st EXCEPT !.scalers = r.scalers,
                          !.fit_table.numeric = IF r.status = "ok" THEN data ELSE @],
               r.fs)

\* the fitted state after CategoricalPreprocessor.fit(data) with outcome r
AfterCategoricalFit(st, data, r) ==
    FitOutcome(r.status,
               [st EXCEPT !.encoders = r.encoders,
                          !.encoding_maps = r.encoding_maps,
                          !.fit_table.categorical = IF r.status = "ok" THEN data ELSE @],
               r.fs)

\* the fitted state after TextPreprocessor.fit(data) with outcome r
AfterTextFit(st, r) == FitOutcome(r.status, st, r.fs)

\* preprocessor.fit(data) of the preprocessor of the given type
FitOf(cfg, type, st, fs) ==
    CASE type = "text" -> AfterTextFit(st, TextFit(cfg, fs))
      [] type = "numeric" -> AfterNumericFit(st, fs.df, NumericFit(cfg, st.scalers, fs))
      [] type = "categorical" ->
            AfterCategoricalFit(st, fs.df,
                                CategoricalFit(cfg, st.encoders, st.encoding_maps, fs))

\* preprocessor.transform(data) of the preprocessor of the given type
TransformOf(cfg, type, st, fs) ==
    CASE type = "text" -> TextTransform(cfg, fs)
      [] type = "numeric" -> NumericTransform(cfg, st.scalers, fs)
      [] type = "categorical" ->
            CategoricalTransform(cfg, st.encoders, st.encoding_maps, fs)

\* the outcome r of a transform together with the fitted state st
WithState(r, st) == FitOutcome(r.status, st, r.fs)

\* the second half of fit_transform: f is the outcome of self.fit(data)
ThenTransform(cfg, type, f) ==
    IF f.status # "ok" THEN f
    ELSE WithState(TransformOf(cfg, type, f.st, Bind(f.fs.arg)), f.st)

\* BasePreprocessor.fit_transform: self.fit(data); return self.transform(data)
FitTransformOf(cfg, type, st, fs) == ThenTransform(cfg, type, FitOf(cfg, type, st, fs))

\* preprocessor.fit(data[columns]) in the loop of PreprocessorFactory.fit
FactoryFitOne(cfg, type, st, data, columns) ==
    IF columns = <<>> THEN FitOutcome("ok", st, Bind(data))
    ELSE IF ~(Range(columns) \subseteq Range(data.columns))
    THEN FitOutcome("KeyError", st, Bind(data))
    ELSE FitOf(cfg, type, st, Bind(Slice(data, columns)))

\* the loop of PreprocessorFactory.fit over self.preprocessors; r is the
\* outcome of the preprocessors before
RECURSIVE FactoryFitLoop(_, _, _, _)
FactoryFitLoop(cfg, r, data, types) ==
    IF types = <<>> \/ r.status # "ok" THEN r
    ELSE FactoryFitLoop(cfg,
             FactoryFitOne(cfg, Head(types), r.st, data, ColumnsOfType(cfg, Head(types))),
             data, Tail(types))

\* the outcome r of the loop of fit for the caller, whose frame fs the
\* loop only reads (data[columns] is a new frame)
FactoryFitResult(r, fs) == FitOutcome(r.status, r.st, fs)

\* PreprocessorFactory.fit
FactoryFit(cfg, preprocessors, st, fs) ==
    FactoryFitResult(FactoryFitLoop(cfg, FitOutcome("ok", st, fs), fs.df, preprocessors), fs)

\* the state of the loop of PreprocessorFactory.transform
Processed(status, processed_dfs) == [status |-> status, processed_dfs |-> processed_dfs]

\* processed_dfs.append(processed_df), t being the outcome of the transform
AppendProcessed(r, t) ==
    IF t.status # "ok" THEN Processed(t.status, r.processed_dfs)
    ELSE Processed("ok", Append(r.processed_dfs, t.fs.df))

\* preprocessor.transform(df[columns]) in the loop of transform
FactoryTransformOne(cfg, type, st, df, columns, r) ==
    IF columns = <<>> THEN r
    ELSE IF ~(Range(columns) \subseteq Range(df.columns))
    THEN Processed("KeyError", r.processed_dfs)
    ELSE AppendProcessed(r, TransformOf(cfg, type, st, Bind(Slice(df, columns))))

\* the loop of PreprocessorFactory.transform: processed_dfs after it
RECURSIVE FactoryTransformLoop(_, _, _, _, _)
FactoryTransformLoop(cfg, st, df, types, r) ==
    IF types = <<>> \/ r.status # "ok" THEN r
    ELSE FactoryTransformLoop(cfg, st, df, Tail(types),
             FactoryTransformOne(cfg, Head(types), st, df,
                                 ColumnsOfType(cfg, Head(types)), r))

\* pd.concat(processed_dfs, axis=1)
ConcatColumns(dfs) ==
    [columns |-> Concat([i \in 1..Len(dfs) |-> dfs[i].columns]),
     data |-> [c \in UNION {Range(dfs[i].columns) : i \in 1..Len(dfs)} |->
                  dfs[CHOOSE i \in 1..Len(dfs) : Contains(dfs[i].columns, c)].data[c]]]

\* the end of PreprocessorFactory.transform, r being the outcome of the loop
\* and copy the binding of df = data.copy()
FactoryCombine(copy, r) ==
    IF r.status # "ok" THEN Outcome(r.status, copy)
    ELSE IF r.processed_dfs # <<>>
    THEN Outcome("ok", NewFrame(copy, ConcatColumns(r.processed_dfs)))
    ELSE Outcome("ok", copy)

\* PreprocessorFactory.transform
FactoryTransform(cfg, preprocessors, st, fs) ==
    FactoryCombine(DataFrameCopy(fs),
                   FactoryTransformLoop(cfg, st, fs.df, preprocessors, Processed("ok", <<>>)))

\* the second half of fit_transform: f is the outcome of self.fit(data)
FactoryThenTransform(cfg, preprocessors, f, fs) ==
    IF f.status # "ok" THEN FitOutcome(f.status, f.st, fs)
    ELSE WithState(FactoryTransform(cfg, preprocessors, f.st, fs), f.st)

\* PreprocessorFactory.fit_transform
FactoryFitTransform(cfg, preprocessors, st, fs) ==
    FactoryThenTransform(cfg, preprocessors, FactoryFit(cfg, preprocessors, st, fs), fs)

(***************************************************************************)
(* The state machine: a configuration, the caller's two tables F and T,    *)
(* the factory built from the configuration, and calls of fit, transform   *)
(* and fit_transform on the factory and on its preprocessors               *)
(* (get_preprocessor) with one of the tables.                              *)
(***************************************************************************)
VARIABLES
    config,         \* the loaded config.yaml
    tables,         \* the caller's tables, [F |-> table, T |-> table]
    engine,         \* [status, preprocessors] of the PreprocessorFactory
    scalers,        \* NumericPreprocessor.scalers
    encoders,       \* CategoricalPreprocessor.encoders
    encoding_maps,  \* CategoricalPreprocessor.encoding_maps
    fit_table,      \* the table each preprocessor was last fitted on
    call            \* the last call: op, target, argument, status, result,
                    \* and whether it fitted again what was fitted before

vars == <<config, tables, engine, scalers, encoders, encoding_maps, fit_table, call>>

TableNames == {"F", "T"}

NoCall == [op |-> "none", target |-> "none", name |-> "F", arg |-> NoTable,
           status |-> "ok", result |-> NoTable, refit |-> FALSE]

State ==
    [scalers |-> scalers, encoders |-> encoders, encoding_maps |-> encoding_maps,
     fit_table |-> fit_table]

Init ==
    /\ config \in Configs
    /\ tables \in [TableNames -> Tables(config)]
    /\ engine = [status |-> "none", preprocessors |-> <<>>]
    /\ scalers = Unfitted.scalers
    /\ encoders = Unfitted.encoders
    /\ encoding_maps = Unfitted.encoding_maps
    /\ fit_table = Unfitted.fit_table
    /\ call = NoCall

\* PreprocessorFactory(config_path)
Construct ==
    /\ engine.status = "none"
    /\ engine' = initialize_preprocessors(config)
    /\ call' = [NoCall EXCEPT !.op = "construct", !.target = "engine",
                              !.status = engine'.status]
    /\ UNCHANGED <<config, tables, scalers, encoders, encoding_maps, fit_table>>

\* the call with fitted state st after it fitted a preprocessor that was
\* fitted before, and changed its scalers or its encoders
Refit(st) ==
    \/ scalers # Unfitted.scalers /\ st.scalers # scalers
    \/ encoders # Unfitted.encoders /\ st.encoders # encoders

\* the effect of a call on tables[x] with outcome r (status, st, fs)
Finish(op, target, x, r) ==
    /\ scalers' = r.st.scalers
    /\ encoders' = r.st.encoders
    /\ encoding_maps' = r.st.encoding_maps
    /\ fit_table' = r.st.fit_table
    /\ tables' = [tables EXCEPT ![x] = r.fs.arg]
    /\ call' = [op |-> op, target |-> target, name |-> x, arg |-> tables[x],
                status |-> r.status,
                result |-> IF r.status = "ok" /\ op # "fit" THEN r.fs.df ELSE NoTable,
                refit |-> Refit(r.st)]
    /\ UNCHANGED <<config, engine>>

\* engine.fit(tables[x])
EngineFit(x) ==
    /\ engine.status = "ok"
    /\ Finish("fit", "engine", x,
              FactoryFit(config, engine.preprocessors, State, Bind(tables[x])))

\* engine.transform(tables[x])
EngineTransform(x) ==
    /\ engine.status = "ok"
    /\ Finish("transform", "engine", x,
              WithState(FactoryTransform(config, engine.preprocessors, State,
                                         Bind(tables[x])), State))

\* engine.fit_transform(tables[x])
EngineFitTransform(x) ==
    /\ engine.status = "ok"
    /\ Finish("fit_transform", "engine", x,
              FactoryFitTransform(config, engine.preprocessors, State, Bind(tables[x])))

\* engine.get_preprocessor(type).fit(tables[x])
PreprocessorFit(type, x) ==
    /\ engine.status = "ok"
    /\ Contains(engine.preprocessors, type)
    /\ Finish("fit", type, x, FitOf(config, type, State, Bind(tables[x])))

\* engine.get_preprocessor(type).transform(tables[x])
PreprocessorTransform(type, x) ==
    /\ engine.status = "ok"
    /\ Contains(engine.preprocessors, type)
    /\ Finish("transform", type, x,
              WithState(TransformOf(config, type, State, Bind(tables[x])), State))

\* engine.get_preprocessor(type).fit_transform(tables[x])
PreprocessorFitTransform(type, x) ==
    /\ engine.status = "ok"
    /\ Contains(engine.preprocessors, type)
    /\ Finish("fit_transform", type, x,
              FitTransformOf(config, type, State, Bind(tables[x])))

Next ==
    \/ Construct
    \/ \E x \in TableNames : EngineFit(x)
    \/ \E x \in TableNames : EngineTransform(x)
    \/ \E x \in TableNames : EngineFitTransform(x)
    \/ \E x \in TableNames, type \in Range(InstantiationOrder) : PreprocessorFit(type, x)
    \/ \E x \in TableNames, type \in Range(InstantiationOrder) : PreprocessorTransform(type, x)
    \/ \E x \in TableNames, type \in Range(InstantiationOrder) : PreprocessorFitTransform(type, x)

Spec == Init /\ [][Next]_vars

(***************************************************************************)
(* Properties.  call is the last call made: its operation, its target, the *)
(* caller's table as it was when the call was made, the status and the     *)
(* table returned.                                                         *)
(***************************************************************************)
\* the names of all the declared columns
Declared == ColumnNames(config.dataset.input_columns)

\* the table of the last call holds every declared column
ArgHasDeclared == Range(Declared) \subseteq Range(call.arg.columns)

\* the last call was made on the engine / on the preprocessor of a type
OnEngine(ops) == call.target = "engine" /\ call.op \in ops

OnPreprocessor(type, ops) == call.target = type /\ call.op \in ops

\* the columns transform of the preprocessor of a type returns for a slice
\* with the columns of that type
OutputColumns(type) ==
    IF type = "categorical"
    THEN Concat([i \in 1..Len(ColumnsOfType(config, type)) |->
                    IF ColumnsOfType(config, type)[i] \in DOMAIN encoders
                       /\ encoders[ColumnsOfType(config, type)[i]].kind = "onehot"
                    THEN encoding_maps[ColumnsOfType(config, type)[i]].feature_names
                    ELSE <<ColumnsOfType(config, type)[i]>>])
    ELSE ColumnsOfType(config, type)

\* C1: with columns of more than one type declared and a table that holds
\* every declared column, fit, transform and fit_transform of the engine
\* raise no validation error (each preprocessor accepts the slice the engine
\* hands it), and the table returned holds the columns of every preprocessor.
C1_EngineAcceptsSlices ==
    (/\ OnEngine({"fit", "transform", "fit_transform"})
     /\ Cardinality(ColumnTypes(config)) > 1
     /\ ArgHasDeclared)
    => /\ call.status # "InvalidInput"
       /\ (call.op # "fit" /\ call.status = "ok")
            => \A i \in 1..Len(engine.preprocessors) :
                   Range(OutputColumns(engine.preprocessors[i]))
                       \subseteq Range(call.result.columns)

\* the value a missing cell of column col gets from the statistic of the
\* table fit saw, the scaled cell of it, and its label code
FitFillValue(col) ==
    NumericFillValue(config.preprocessing.numeric.handle_missing, fit_table.numeric.data[col])

FitFillCategory(col) ==
    CategoricalFillValue(config.preprocessing.categorical.handle_missing,
                         fit_table.categorical.data[col])

\* C2: the statistic that fills missing cells is the one of the table seen
\* by fit: after fit(F), transform(T) gives a missing numeric cell the scaled
\* mean/median/mode of F's column, and a missing categorical cell the code
\* of the mode of F's column.
C2_FillFromFit ==
    /\ (/\ OnPreprocessor("numeric", {"transform"})
        /\ call.status = "ok"
        /\ fit_table.numeric # NoTable)
       => \A col \in Range(ColumnsOfType(config, "numeric")) \cap DOMAIN scalers :
            \A i \in 1..NRows(call.arg) :
               (IsNaN(call.arg.data[col][i]) /\ FitFillValue(col) # <<>>)
               => call.result.data[col][i]
                     = ScalerTransform(scalers[col], FitFillValue(col))[1]
    /\ (/\ OnPreprocessor("categorical", {"transform"})
        /\ call.status = "ok"
        /\ fit_table.categorical # NoTable
        /\ config.preprocessing.categorical = CategoricalDefault)
       => \A col \in Range(ColumnsOfType(config, "categorical")) \cap DOMAIN encoders :
            \A i \in 1..NRows(call.arg) :
               (call.arg.data[col][i] = None /\ FitFillCategory(col) # <<>>)
               => call.result.data[col][i] = encoding_maps[col][FitFillCategory(col)[1]]

\* the values of the options a configuration may give
NumericMethods == {"mean", "median", "mode"}

NumericScalings == {"standard", "minmax", "robust"}

CategoricalMethods == {"mode", "sentinel"}

CategoricalEncodings == {"label", "onehot"}

\* an option of the block of a declared type has a value that is not one of
\* the values of that option
UnknownOption ==
    \/ /\ "numeric" \in ColumnTypes(config)
       /\ \/ config.preprocessing.numeric.handle_missing \notin NumericMethods
          \/ config.preprocessing.numeric.scaling \notin NumericScalings
    \/ /\ "categorical" \in ColumnTypes(config)
       /\ \/ config.preprocessing.categorical.handle_missing \notin CategoricalMethods
          \/ config.preprocessing.categorical.encoding \notin CategoricalEncodings

\* C3: a configuration with an unknown value of numeric.handle_missing,
\* numeric.scaling, categorical.handle_missing or categorical.encoding makes
\* the construction of the engine fail; no engine is built from it.
C3_UnknownOptionFailsConstruction ==
    (engine.status # "none" /\ UnknownOption) => engine.status # "ok"

\* the table of the last call after CategoricalPreprocessor has handled its
\* missing values
FilledArg ==
    CategoricalHandleMissing(config.preprocessing.categorical, Bind(call.arg),
                             ColumnsOfType(config, "categorical"))

\* the rows of the last call's table whose category in col, after the
\* missing values are handled, is none of the categories fit saw
UnseenRows(col) ==
    {i \in 1..NRows(call.arg) :
        ~Contains(encoders[col].classes_, FilledArg.fs.df.data[col][i])}

\* the last call is a transform of the fitted CategoricalPreprocessor on a
\* table with a category in col that fit did not see
UnseenCategory(col) ==
    /\ OnPreprocessor("categorical", {"transform"})
    /\ ArgHasDeclared
    /\ col \in DOMAIN encoders
    /\ FilledArg.status = "ok"
    /\ UnseenRows(col) # {}

\* C4: a category that fit did not see makes transform, under one-hot
\* encoding, return a table whose indicator columns are all 0 in that row,
\* and under label encoding raise the unseen-labels error without a table.
C4_UnseenCategory ==
    \A col \in Range(ColumnsOfType(config, "categorical")) :
        UnseenCategory(col)
        => IF encoders[col].kind = "onehot"
           THEN /\ call.status = "ok"
                /\ ~Contains(call.result.columns, col)
                /\ \A i \in UnseenRows(col) :
                     \A n \in Range(encoding_maps[col].feature_names) :
                        call.result.data[n][i] = 0
           ELSE /\ call.status = "UnseenLabels"
                /\ call.result = NoTable

\* a one-hot transform of a row with an unseen category, with at least one
\* indicator column
C4_Witness ==
    /\ UnseenCategory("city")
    /\ encoders["city"].kind = "onehot"
    /\ encoding_maps["city"].feature_names # <<>>
    /\ call.status = "ok"

\* the last call is a transform or fit_transform of the engine on a table
\* with every declared column that ended without an error of the values
\* or of the options
EngineTransformed ==
    /\ OnEngine({"transform", "fit_transform"})
    /\ ArgHasDeclared
    /\ call.status \notin {"EmptyMode", "UnseenLabels", "UnknownMethod"}

\* C5: the columns of the table the engine returns are exactly the columns
\* returned by its preprocessors; columns of a type without a preprocessor
\* are not in it and cause no error, also when no type has a preprocessor.
C5_OutputColumnsAreUnion ==
    EngineTransformed
    => /\ call.status = "ok"
       /\ Range(call.result.columns)
            = UNION {Range(OutputColumns(engine.preprocessors[i])) :
                        i \in 1..Len(engine.preprocessors)}

\* the last call returned a table
Returned == call.op \in {"transform", "fit_transform"} /\ call.status = "ok"

\* the preprocessor of the type has worked on the table of the last call
Worked(type) == call.target \in {type, "engine"} /\ Contains(engine.preprocessors, type)

\* row i of the table returned comes from row i of the caller's table: a
\* text cell is the preprocessed cell, a numeric cell with a value the
\* scaled value, a categorical cell with a value its code or its
\* indicators, and a column the preprocessor does not work on is as it was
RowFromRow(i) ==
    /\ \A col \in Range(ColumnsOfType(config, "text")) :
          Worked("text")
          => call.result.data[col][i]
                = preprocess_text(config.preprocessing.text, call.arg.data[col][i])
    /\ \A col \in Range(ColumnsOfType(config, "numeric")) \cap DOMAIN scalers :
          (Worked("numeric") /\ ~IsNaN(call.arg.data[col][i]))
          => call.result.data[col][i]
                = ScalerTransform(scalers[col], <<call.arg.data[col][i]>>)[1]
    /\ \A col \in Range(ColumnsOfType(config, "categorical")) \cap DOMAIN encoders :
          (Worked("categorical") /\ call.arg.data[col][i] # None)
          => IF encoders[col].kind = "label"
             THEN call.result.data[col][i]
                     = IndexOf(encoders[col].classes_, call.arg.data[col][i]) - 1
             ELSE \A k \in 1..Len(encoders[col].classes_) :
                     call.result.data[encoding_maps[col].feature_names[k]][i]
                        = IF encoders[col].classes_[k] = call.arg.data[col][i]
                          THEN 1 ELSE 0
    /\ \A col \in Range(call.arg.columns) :
          (call.target # "engine" /\ TypeOf(config.dataset.input_columns, col) # call.target)
          => call.result.data[col][i] = call.arg.data[col][i]

\* C6: a table returned by transform (of a preprocessor or of the engine)
\* has as many rows as the caller's table, in every column, and its row i
\* comes from row i of the caller's table: no row is dropped, added or moved.
C6_RowsPreserved ==
    Returned
    => /\ NRows(call.result) = NRows(call.arg)
       /\ \A col \in Range(call.result.columns) :
             Len(call.result.data[col]) = NRows(call.arg)
       /\ \A i \in 1..NRows(call.arg) : RowFromRow(i)

\* a table of two different rows, one with a cell that is not a str, was
\* transformed by TextPreprocessor into two different rows
C6_Witness ==
    /\ Returned
    /\ call.target = "text"
    /\ NRows(call.arg) = 2
    /\ call.arg.data["note"][1].str /\ ~call.arg.data["note"][2].str
    /\ call.result.data["note"][1] # call.result.data["note"][2]

\* C7: fit, transform and fit_transform, of a preprocessor or of the engine,
\* leave the caller's table as it was when the call was made, whether the
\* call returns or raises.
C7_InputUnchanged ==
    call.op \in {"fit", "transform", "fit_transform"} => tables[call.name] = call.arg

\* NumericPreprocessor.fit filled a missing cell of a column with a value
C7_Witness ==
    /\ OnPreprocessor("numeric", {"fit"})
    /\ call.status = "ok"
    /\ \E i, j \in 1..NRows(call.arg) :
          IsNaN(call.arg.data["age"][i]) /\ ~IsNaN(call.arg.data["age"][j])
    /\ ~IsNaN(scalers["age"].center)

\* C8: the columns of the table the engine returns are grouped by
\* preprocessor in the order text, numeric, categorical, and within a group
\* in the order of that preprocessor's result.
C8_GroupedInOrder ==
    (EngineTransformed /\ engine.preprocessors # <<>>)
    => /\ call.status = "ok"
       /\ call.result.columns
            = Concat([i \in 1..Len(engine.preprocessors) |->
                         OutputColumns(engine.preprocessors[i])])

\* the column col of the table CategoricalPreprocessor was fitted on, after
\* its missing values were handled
FitFilled(col) ==
    CategoricalHandleMissing(config.preprocessing.categorical, Bind(fit_table.categorical),
                             ColumnsOfType(config, "categorical")).fs.df.data[col]

\* the category the encoding map m gives the code
Decode(m, code) == CHOOSE category \in DOMAIN m : m[category] = code

\* C9: under label encoding the encoding map of a fitted column is a
\* bijection between the categories of the column fit saw and their codes,
\* decoding a code gives the category back, and transform gives a category
\* the code of the map.
C9_LabelMapBijection ==
    \A col \in DOMAIN encoders :
        encoders[col].kind = "label"
        => /\ DOMAIN encoding_maps[col] = Range(FitFilled(col))
           /\ \A a, b \in DOMAIN encoding_maps[col] :
                 encoding_maps[col][a] = encoding_maps[col][b] => a = b
           /\ \A a \in DOMAIN encoding_maps[col] :
                 Decode(encoding_maps[col], encoding_maps[col][a]) = a
           /\ (Returned /\ Worked("categorical"))
              => \A i \in 1..NRows(call.arg) :
                    call.result.data[col][i]
                       = encoding_maps[col][FilledArg.fs.df.data[col][i]]

\* a label map of two categories was used by transform
C9_Witness ==
    /\ "city" \in DOMAIN encoders
    /\ encoders["city"].kind = "label"
    /\ Cardinality(DOMAIN encoding_maps["city"]) = 2
    /\ OnPreprocessor("categorical", {"transform"})
    /\ call.status = "ok"
    /\ call.arg # fit_table.categorical

\* C10: fit, transform and fit_transform of a preprocessor on a table that
\* lacks a declared column raise the validation error before anything is
\* processed: scalers, encoders and encoding maps stay as they were and no
\* table is returned.
C10_SchemaErrorFirst ==
    [][(/\ call'.target \in Range(InstantiationOrder)
        /\ call'.op \in {"fit", "transform", "fit_transform"}
        /\ ~(Range(Declared) \subseteq Range(call'.arg.columns)))
       => /\ call'.status = "InvalidInput"
          /\ call'.result = NoTable
          /\ UNCHANGED <<scalers, encoders, encoding_maps, fit_table, tables>>]_vars

\* the fitted NumericPreprocessor refused a table without the column age
C10_Witness ==
    /\ OnPreprocessor("numeric", {"transform", "fit"})
    /\ ~Contains(call.arg.columns, "age")
    /\ call.arg.columns # <<>>
    /\ call.status = "InvalidInput"
    /\ "age" \in DOMAIN scalers

\* the last call was a fit or a fit_transform that fitted
Fitted(target) == call.target = target /\ call.op \in {"fit", "fit_transform"}
                  /\ call.status = "ok"

\* the fitted state of a new engine, or a new preprocessor of the type,
\* after fit on the table of the last call
FreshEngineFit == FactoryFit(config, engine.preprocessors, Unfitted, Bind(call.arg)).st

FreshFit(type) == FitOf(config, type, Unfitted, Bind(call.arg)).st

\* C11: a fit that returns replaces the fitted state: after it, scalers,
\* encoders and encoding maps are those of a new preprocessor (or engine)
\* fitted on that table alone, whatever was fitted before, with one scaler
\* or encoder per declared column of the type.
C11_RefitReplaces ==
    /\ Fitted("numeric")
       => /\ scalers = FreshFit("numeric").scalers
          /\ DOMAIN scalers = Range(ColumnsOfType(config, "numeric"))
    /\ Fitted("categorical")
       => /\ encoders = FreshFit("categorical").encoders
          /\ encoding_maps = FreshFit("categorical").encoding_maps
          /\ DOMAIN encoders = Range(ColumnsOfType(config, "categorical"))
          /\ DOMAIN encoding_maps = DOMAIN encoders
    /\ Fitted("engine")
       => /\ scalers = FreshEngineFit.scalers
          /\ encoders = FreshEngineFit.encoders
          /\ encoding_maps = FreshEngineFit.encoding_maps
          /\ DOMAIN scalers = Range(ColumnsOfType(config, "numeric"))
          /\ DOMAIN encoders = Range(ColumnsOfType(config, "categorical"))

\* NumericPreprocessor.fit on a table gave a preprocessor that was fitted
\* on another table other scalers
C11_Witness ==
    /\ Fitted("numeric")
    /\ call.op = "fit"
    /\ call.refit

\* the last call is a transform of a preprocessor that was never fitted, on
\* a table with every declared column
UnfittedTransform(type) ==
    /\ OnPreprocessor(type, {"transform"})
    /\ ArgHasDeclared
    /\ IF type = "numeric" THEN scalers = Unfitted.scalers
       ELSE encoders = Unfitted.encoders

\* the value the missing cells of column col of the last call's table are
\* filled with, from that table: <<v>>, or <<>> when there is none
ArgFillValue(type, col) ==
    IF type = "numeric"
    THEN NumericFillValue(config.preprocessing.numeric.handle_missing, call.arg.data[col])
    ELSE CategoricalFillValue(config.preprocessing.categorical.handle_missing,
                              call.arg.data[col])

\* the cells of a column of the type that are missing
IsMissing(type, cell) == IF type = "numeric" THEN IsNaN(cell) ELSE cell = None

\* the table returned holds the columns of the type of the last call's
\* table with the missing cells filled and nothing else done to them
FillOnly(type) ==
    /\ call.status = "ok"
    /\ call.result.columns = call.arg.columns
    /\ \A col \in Range(ColumnsOfType(config, type)) :
          \A i \in 1..NRows(call.arg) :
             call.result.data[col][i]
                = IF IsMissing(type, call.arg.data[col][i])
                  THEN ArgFillValue(type, col)[1]
                  ELSE call.arg.data[col][i]

\* C12 as stated: transform of a NumericPreprocessor or CategoricalPreprocessor
\* that was never fitted, on a table with every declared column, does not
\* raise and returns the declared columns with the missing cells filled,
\* unscaled and unencoded.
C12_UnfittedNeverRaises ==
    \A type \in {"numeric", "categorical"} : UnfittedTransform(type) => FillOnly(type)

\* the filling of the columns of the type is defined for the last call's
\* table: the method is one that _handle_missing_values takes, and a column
\* filled with its mode has a value
FillDefined(type) ==
    /\ type = "numeric" => config.preprocessing.numeric.handle_missing \in NumericMethods
    /\ \A col \in Range(ColumnsOfType(config, type)) : ArgFillValue(type, col) # <<>>

\* C12 (amended): transform of a preprocessor that was never fitted does
\* not raise for want of a fit: when the filling of the missing cells is
\* defined it returns the declared columns filled, unscaled and unencoded,
\* and when it is not, the call raises the error of the filling and
\* returns no table.
C12_UnfittedFillOnly ==
    \A type \in {"numeric", "categorical"} :
        UnfittedTransform(type)
        => IF FillDefined(type) THEN FillOnly(type)
           ELSE /\ call.status \in {"UnknownMethod", "EmptyMode"}
                /\ call.result = NoTable

\* the NumericPreprocessor that was never fitted returned a column with a
\* missing cell filled and the other cell as it was
C12_Witness ==
    /\ UnfittedTransform("numeric")
    /\ call.status = "ok"
    /\ \E i, j \in 1..NRows(call.arg) :
          /\ IsNaN(call.arg.data["age"][i])
          /\ ~IsNaN(call.result.data["age"][i])
          /\ call.result.data["age"][j] = call.arg.data["age"][j]
          /\ i # j

====
